---- MODULE Spec2Model ----
(***************************************************************************)
(* Model of the mutating admission webhook of tensile-kube                 *)
(* (pkg/webhook/hook.go): the admission decision engine (mutate), the      *)
(* eligibility rules, the constraint rewriter (inject and its helpers),    *)
(* the volume-affinity resolver and the per-owner frozen-node registry.    *)
(*                                                                         *)
(* Conventions.  A Go pointer or nilable slice is a sequence of length 0   *)
(* (nil) or 1 (the value).  A Go map[string]string is a set of <<key,      *)
(* value>> pairs with unique keys; a lookup of a missing key yields "".    *)
(* A Go slice that is edited in place is an array (a sequence holding      *)
(* every written slot) together with its length.                           *)
(***************************************************************************)
EXTENDS Integers, Sequences, FiniteSets, TLC

VARIABLES
    ignoreSelectorKeys, \* webhookServer.ignoreSelectorKeys (static after construction)
    freezeCache,        \* the package-level freezeCache: set of <<owner, node>>
    request,            \* the admission request handled last (<<>> before the first)
    outcome,            \* what mutate did with it: terminal state, response, steps run
    updatesHandled,     \* history: <<owner, node>> of the Pod UPDATEs handled so far
                        \* (pods that were not skipped, owner and node not empty)
    fn,                 \* rewriter specifications: the function under study
    input,              \* rewriter specifications: its input
    output              \* rewriter specifications: <<>> or <<result>> (two passes for inject)

vars == <<ignoreSelectorKeys, freezeCache, request, outcome, updatesHandled,
          fn, input, output>>

----------------------------------------------------------------------------
(* Nilable values and maps *)

Nil == <<>>

Some(x) == <<x>>

IsNil(o) == Len(o) = 0

\* s[lo:hi] of Go (0-based, hi exclusive) on a 1-based sequence
GoSlice(s, lo, hi) == [j \in 1..(hi - lo) |-> s[lo + j]]

----------------------------------------------------------------------------
(* Well-known strings of package util *)

TaintNodeNotReady == "node.kubernetes.io/not-ready"

TaintNodeUnreachable == "node.kubernetes.io/unreachable"

NodeNameKey == "kubernetes.io/hostname"

desiredMap ==
    [k \in {TaintNodeNotReady, TaintNodeUnreachable} |->
        [key |-> k, operator |-> "Exists", value |-> "", effect |-> "NoExecute"]]

----------------------------------------------------------------------------
(* Toleration normalization *)

addDefaultPodTolerationsAlways(tolerations, notReady, unSchedulable) ==
    Append(Append(tolerations, desiredMap[TaintNodeNotReady]),
           desiredMap[TaintNodeUnreachable])

addDefaultPodTolerations(tolerations, notReady, unSchedulable) ==
    LET withNotReady == IF ~notReady
                        THEN Append(tolerations, desiredMap[TaintNodeNotReady])
                        ELSE tolerations
    IN  IF ~unSchedulable
        THEN Append(withNotReady, desiredMap[TaintNodeUnreachable])
        ELSE withNotReady

RECURSIVE tolerationLoop(_, _, _)
tolerationLoop(src, i, st) ==
    IF i > Len(src) THEN st
    ELSE LET toleration == src[i]
             notReady == st.notReady \/ toleration.key = TaintNodeNotReady
             unSchedulable == st.unSchedulable \/ toleration.key = TaintNodeUnreachable
             kept == IF toleration.key \in DOMAIN desiredMap
                     THEN desiredMap[toleration.key]
                     ELSE toleration
         IN  tolerationLoop(src, i + 1,
                 [notReady |-> notReady, unSchedulable |-> unSchedulable,
                  tolerations |-> Append(st.tolerations, kept)])

\* podTolerations is pod.Spec.Tolerations: Nil or Some(list)
getPodTolerations(podTolerations) ==
    LET src == IF IsNil(podTolerations) THEN <<>> ELSE podTolerations[1]
        st == tolerationLoop(src, 1,
                  [notReady |-> FALSE, unSchedulable |-> FALSE, tolerations |-> <<>>])
    IN  addDefaultPodTolerations(st.tolerations, st.notReady, st.unSchedulable)

----------------------------------------------------------------------------
(* Node-selector and affinity rewrite *)

\* labelMap[k] != "" : k was put into labelMap and is not the empty string
labelFound(ignoreLabels, k) == k \in ignoreLabels /\ k # ""

injectNodeSelectorInverted(nodeSelector, ignoreLabels) ==
    [nodeSelector |-> {p \in nodeSelector : ~labelFound(ignoreLabels, p[1])},
     finalNodeSelector |-> {p \in nodeSelector : labelFound(ignoreLabels, p[1])}]

\* returns the selector left on the pod (edited in place) and finalNodeSelector
injectNodeSelector(nodeSelector, ignoreLabels) ==
    [nodeSelector |-> {p \in nodeSelector : labelFound(ignoreLabels, p[1])},
     finalNodeSelector |-> {p \in nodeSelector : ~labelFound(ignoreLabels, p[1])}]

\* live = append(live[:p], live[q:]...) on the array arr of which the first
\* len slots are the slice; ok is FALSE where Go panics (slice bounds out of range)
spliceOut(arr, len, p, q) ==
    LET ok == p >= 0 /\ p <= Len(arr) /\ q >= 0 /\ q <= len
        tail == GoSlice(arr, q, len)
        newLen == p + Len(tail)
        written == GoSlice(arr, 0, p) \o tail
    IN  IF ~ok THEN [ok |-> FALSE, arr |-> arr, len |-> len]
        ELSE [ok |-> TRUE,
              arr |-> IF newLen <= Len(arr)
                      THEN written \o GoSlice(arr, newLen, Len(arr))
                      ELSE written,
              len |-> newLen]

\* the loop over term.MatchExpressions of the copy; st is the live slice, the
\* extracted list mes and mesDeleteCount
RECURSIVE matchExpressionsLoop(_, _, _, _)
matchExpressionsLoop(copy, ignoreLabels, meIdx, st) ==
    IF meIdx >= Len(copy) \/ ~st.ok THEN st
    ELSE LET me == copy[meIdx + 1]
         IN  IF labelFound(ignoreLabels, me.key)
             THEN matchExpressionsLoop(copy, ignoreLabels, meIdx + 1, st)
             ELSE LET cut == spliceOut(st.arr, st.len, meIdx - st.deleteCount,
                                       meIdx - st.deleteCount + 1)
                  IN  matchExpressionsLoop(copy, ignoreLabels, meIdx + 1,
                          [ok |-> cut.ok, arr |-> cut.arr, len |-> cut.len,
                           extracted |-> Append(st.extracted, me),
                           deleteCount |-> st.deleteCount + 1])

\* the loop over term.MatchFields of the copy: the prefix is cut at
\* mfIdx-mesDeleteCount, the suffix at mfIdx-mfsDeleteCount+1
RECURSIVE matchFieldsLoop(_, _, _, _, _)
matchFieldsLoop(copy, ignoreLabels, mesDeleteCount, mfIdx, st) ==
    IF mfIdx >= Len(copy) \/ ~st.ok THEN st
    ELSE LET mf == copy[mfIdx + 1]
         IN  IF labelFound(ignoreLabels, mf.key)
             THEN matchFieldsLoop(copy, ignoreLabels, mesDeleteCount, mfIdx + 1, st)
             ELSE LET cut == spliceOut(st.arr, st.len, mfIdx - mesDeleteCount,
                                       mfIdx - st.deleteCount + 1)
                  IN  matchFieldsLoop(copy, ignoreLabels, mesDeleteCount, mfIdx + 1,
                          [ok |-> cut.ok, arr |-> cut.arr, len |-> cut.len,
                           extracted |-> Append(st.extracted, mf),
                           deleteCount |-> st.deleteCount + 1])

sliceState(s) ==
    [ok |-> TRUE, arr |-> s, len |-> Len(s), extracted |-> <<>>, deleteCount |-> 0]

\* what one iteration of the loop over the terms leaves: the live term as
\* edited in place and the term extracted for the backup
termResult(mes, mfs) ==
    [ok |-> mes.ok /\ mfs.ok,
     live |-> [matchExpressions |-> GoSlice(mes.arr, 0, mes.len),
               matchFields |-> GoSlice(mfs.arr, 0, mfs.len)],
     backup |-> [matchExpressions |-> mes.extracted, matchFields |-> mfs.extracted]]

rewriteFields(term, ignoreLabels, mes) ==
    termResult(mes, matchFieldsLoop(term.matchFields, ignoreLabels, mes.deleteCount, 0,
                                    sliceState(term.matchFields)))

\* one iteration of the loop over requiredCopy.NodeSelectorTerms
rewriteTerm(term, ignoreLabels) ==
    rewriteFields(term, ignoreLabels,
                  matchExpressionsLoop(term.matchExpressions, ignoreLabels, 0,
                                       sliceState(term.matchExpressions)))

termIsEmpty(term) == Len(term.matchFields) = 0 /\ Len(term.matchExpressions) = 0

RECURSIVE filterTerms(_)
filterTerms(terms) ==
    IF Len(terms) = 0 THEN <<>>
    ELSE IF termIsEmpty(Head(terms)) THEN filterTerms(Tail(terms))
         ELSE <<Head(terms)>> \o filterTerms(Tail(terms))

requiredAffinity(terms) ==
    [nodeAffinity |-> Some([required |-> Some([terms |-> terms])])]

\* lines 343-361: done[i] is what the loop left of term i
assembleAffinity(done) ==
    LET nodeSelectorTerm == filterTerms([i \in 1..Len(done) |-> done[i].backup])
        filteredTerms == filterTerms([i \in 1..Len(done) |-> done[i].live])
        required == IF Len(filteredTerms) = 0 THEN Nil
                    ELSE Some([terms |-> filteredTerms])
    IN  [panic |-> \E i \in 1..Len(done) : ~done[i].ok,
         live |-> [nodeAffinity |-> Some([required |-> required])],
         backup |-> IF Len(nodeSelectorTerm) = 0 THEN Nil
                    ELSE Some(requiredAffinity(nodeSelectorTerm))]

rewriteTerms(terms, ignoreLabels) ==
    assembleAffinity([i \in 1..Len(terms) |-> rewriteTerm(terms[i], ignoreLabels)])

\* affinity is *pod.Spec.Affinity (not nil).  Returns the affinity as edited in
\* place (live), the returned backup affinity (Nil or Some), and panic.
injectAffinity(affinity, ignoreLabels) ==
    IF IsNil(affinity.nodeAffinity)
    THEN [panic |-> FALSE, live |-> affinity, backup |-> Nil]
    ELSE IF IsNil(affinity.nodeAffinity[1].required)
    THEN [panic |-> FALSE, live |-> affinity, backup |-> Nil]
    ELSE rewriteTerms(affinity.nodeAffinity[1].required[1].terms, ignoreLabels)

----------------------------------------------------------------------------
(* The constraint rewriter on a pod *)

skipInject(pod) ==
    /\ Cardinality(pod.nodeSelector) = 0
    /\ IsNil(pod.affinity)
    /\ IsNil(pod.tolerations)

\* json.Marshal of util.ClustersNodeSelection: every field is omitempty, so a
\* nil and an empty toleration list serialize alike
marshalClustersNodeSelection(nodeSelector, affinity, tolerations) ==
    [nodeSelector |-> nodeSelector,
     affinity |-> affinity,
     tolerations |-> IF IsNil(tolerations) THEN <<>> ELSE tolerations[1]]

\* lines 218-236, with aff the outcome of the affinity rewrite
injectRest(pod, ignoreKeys, aff) ==
    LET sel == injectNodeSelector(pod.nodeSelector, ignoreKeys)
        cnsByte == marshalClustersNodeSelection(sel.finalNodeSelector, aff.backup,
                                                pod.tolerations)
    IN  IF aff.panic THEN [panic |-> TRUE, pod |-> pod]
        ELSE [panic |-> FALSE,
              pod |-> [pod EXCEPT
                  !.affinity = IF IsNil(pod.affinity) THEN Nil ELSE Some(aff.live),
                  !.nodeSelector = sel.nodeSelector,
                  !.annotations.selector = Some(cnsByte),
                  !.tolerations = Some(getPodTolerations(pod.tolerations))]]

\* returns the pod as edited in place, and panic when injectAffinity aborts
inject(pod, ignoreKeys) ==
    IF skipInject(pod) THEN [panic |-> FALSE, pod |-> pod]
    ELSE injectRest(pod, ignoreKeys,
                    IF ~IsNil(pod.affinity)
                    THEN injectAffinity(pod.affinity[1], ignoreKeys)
                    ELSE [panic |-> FALSE, live |-> Nil, backup |-> Nil])

----------------------------------------------------------------------------
(* Eligibility, owner, frozen-node registry, volume affinity *)

\* util.IsVirtualPod: the pod carries the virtual-pod marker label
IsVirtualPod(pod) == ~IsNil(pod.labels) /\ pod.labels[1].virtual = "true"

shouldSkipVirtualOnly(pod) ==
    IF pod.namespace = "kube-system" THEN TRUE
    ELSE IF ~IsNil(pod.labels) THEN ~IsVirtualPod(pod)
    ELSE FALSE

shouldSkip(pod) ==
    IF pod.namespace = "kube-system" THEN TRUE
    ELSE IF ~IsNil(pod.labels)
         THEN IF pod.labels[1].descheduler = "true" THEN TRUE
              ELSE IF ~IsVirtualPod(pod) THEN TRUE
              ELSE FALSE
         ELSE FALSE

getOwnerRef(pod) ==
    IF Len(pod.ownerReferences) > 0 THEN pod.ownerReferences[1] ELSE ""

\* util.UnschedulableCache.Add: idempotent add of node to the owner's set
CacheAdd(cache, node, ref) == cache \cup {<<ref, node>>}

\* util.UnschedulableCache.GetFreezeNodes: the owner's set, empty when unknown
GetFreezeNodes(cache, ref) == {p[2] : p \in {q \in cache : q[1] = ref}}

setUnschedulableNodesAnyOwner(cache, ref, pod) ==
    LET node == pod.annotations.unschedulable
    IN  IF Len(node) > 0 THEN CacheAdd(cache, node, ref) ELSE cache

\* returns the cache after the call
setUnschedulableNodes(cache, ref, pod) ==
    IF Len(ref) = 0 THEN cache
    ELSE LET node == pod.annotations.unschedulable
         IN  IF Len(node) > 0 THEN CacheAdd(cache, node, ref) ELSE cache

getUnschedulableNodesPlaced(cache, ref, pod) ==
    IF Len(ref) = 0 THEN {}
    ELSE IF Len(pod.nodeName) = 0 THEN {}
    ELSE GetFreezeNodes(cache, ref)

getUnschedulableNodes(cache, ref, pod) ==
    IF Len(ref) = 0 THEN {}
    ELSE IF Len(pod.nodeName) # 0 THEN {}
    ELSE GetFreezeNodes(cache, ref)

\* util.ReplacePodNodeNameNodeAffinity: a NotIn requirement on the node name
\* joined to every existing required term, or a term of its own when there is none
ReplacePodNodeNameNodeAffinity(affinity, nodes) ==
    LET nodeSelReq == [key |-> NodeNameKey, operator |-> "NotIn", values |-> nodes]
        own == <<[matchExpressions |-> <<nodeSelReq>>, matchFields |-> <<>>]>>
        had == IF IsNil(affinity) THEN <<>>
               ELSE IF IsNil(affinity[1].nodeAffinity) THEN <<>>
               ELSE IF IsNil(affinity[1].nodeAffinity[1].required) THEN <<>>
               ELSE affinity[1].nodeAffinity[1].required[1].terms
    IN  Some(requiredAffinity(
            IF Len(had) = 0 THEN own
            ELSE [i \in 1..Len(had) |->
                    [had[i] EXCEPT !.matchExpressions = Append(@, nodeSelReq)]]))

\* the claims known to the PersistentVolumeClaim lister: <<namespace, name>>
\* to the value of their selected-node annotation ("" when not annotated)
pvcLister ==
    {<<<<"default", "data-bound">>, "node-9">>, <<<<"default", "data-unbound">>, "">>}

getNodeNameFromPVC(ns, pvcName) ==
    IF \E c \in pvcLister : c[1] = <<ns, pvcName>>
    THEN (CHOOSE c \in pvcLister : c[1] = <<ns, pvcName>>)[2]
    ELSE ""

\* the loop over pod.Spec.Volumes: the node name to set, "" when none
RECURSIVE volumesLoop(_, _)
volumesLoop(ns, volumes) ==
    IF Len(volumes) = 0 THEN ""
    ELSE LET pvcSource == Head(volumes).persistentVolumeClaim
         IN  IF IsNil(pvcSource) THEN volumesLoop(ns, Tail(volumes))
             ELSE LET nodeName == getNodeNameFromPVC(ns, pvcSource[1])
                  IN  IF Len(nodeName) # 0 THEN nodeName
                      ELSE volumesLoop(ns, Tail(volumes))

trySetNodeName(pod) ==
    LET nodeName == volumesLoop(pod.namespace, pod.volumes)
    IN  IF Len(nodeName) # 0 THEN [pod EXCEPT !.nodeName = nodeName] ELSE pod

\* util.CreateJSONPatch: the edits that turn pod into clone, or an error
CreateJSONPatch(pod, clone, fails) ==
    IF fails THEN [err |-> "diff failed", patch |-> Nil]
    ELSE [err |-> "", patch |-> Some(clone)]

----------------------------------------------------------------------------
(* The admission decision engine *)

AdmissionResponse(ok, msg, status, edits, editType) ==
    [allowed |-> ok, message |-> msg, code |-> status,
     patch |-> edits, patchType |-> editType]

Answer(terminal, response, cache, steps) ==
    [terminal |-> terminal, response |-> Some(response), cache |-> cache, steps |-> steps]

\* lines 133-146: the diff of the clone against the pod, and the response
respond(pod, injected, diffFails, cache, ran) ==
    LET diff == CreateJSONPatch(pod, injected.pod, diffFails)
    IN  IF injected.panic
        THEN [terminal |-> "Aborted", response |-> Nil, cache |-> cache, steps |-> ran]
        ELSE Answer("AllowWithPatch",
                    AdmissionResponse(TRUE, diff.err, IF diff.err # "" THEN 403 ELSE 0,
                                      diff.patch, "JSONPatch"),
                    cache, ran \cup {"CreateJSONPatch"})

\* lines 122-132: nodes is what getUnschedulableNodes returned ({} when not called)
rewrite(pod, nodes, ignoreKeys) ==
    inject(trySetNodeName(IF Cardinality(nodes) > 0
                          THEN [pod EXCEPT
                                   !.affinity = ReplacePodNodeNameNodeAffinity(@, nodes)]
                          ELSE pod),
           ignoreKeys)

pipeline(req, pod, nodes, diffFails, cache, ignoreKeys) ==
    respond(pod, rewrite(pod, nodes, ignoreKeys), diffFails, cache,
            (IF req.operation = "CREATE" THEN {"getUnschedulableNodes"} ELSE {})
            \cup (IF Cardinality(nodes) > 0
                  THEN {"ReplacePodNodeNameNodeAffinity"} ELSE {})
            \cup {"trySetNodeName", "inject"})

\* the switch on req.Operation for a pod that is not skipped, and what follows it
dispatch(req, pod, diffFails, cache, ignoreKeys) ==
    IF req.operation = "UPDATE"
    THEN Answer("UpdatedAllow", AdmissionResponse(TRUE, "", 0, Nil, ""),
                setUnschedulableNodes(cache, getOwnerRef(pod), pod),
                {"setUnschedulableNodes"})
    ELSE pipeline(req, pod,
                  IF req.operation = "CREATE"
                  THEN getUnschedulableNodes(cache, getOwnerRef(pod), pod) ELSE {},
                  diffFails, cache, ignoreKeys)

\* lines 97-101: Allowed is not set, so it is false
unmarshalErrorAllowed == AdmissionResponse(TRUE, "unmarshal error", 0, Nil, "")

unmarshalError == AdmissionResponse(FALSE, "unmarshal error", 0, Nil, "")

\* req.object is Nil when json.Unmarshal of the raw bytes fails.  diffFails is
\* the outcome of the diff collaborator, should the request get that far.
mutate(req, diffFails, cache, ignoreKeys) ==
    IF req.kind # "Pod"
    THEN Answer("Denied", AdmissionResponse(FALSE, "", 0, Nil, ""), cache, {})
    ELSE IF IsNil(req.object)
    THEN Answer("ParseError", unmarshalError, cache, {})
    ELSE IF shouldSkip(req.object[1])
    THEN Answer("SkippedAllow", AdmissionResponse(TRUE, "", 0, Nil, ""), cache, {})
    ELSE dispatch(req, req.object[1], diffFails, cache, ignoreKeys)

----------------------------------------------------------------------------
(* Bounds and the inputs drawn from them *)

MaxTolerations == 3

MaxSelector == 2

MaxExpressions == 2

MaxFields == 2

MaxTerms == 2

SeqsUpTo(S, n) == UNION {[1..k -> S] : k \in 0..n}

Owners == {"u1", "u2"}

Nodes == {"node-1", "node-2"}

LabelKeys == {"zone", "gpu", "rack"}

Requirement(k, v) == [key |-> k, operator |-> "In", values |-> {v}]

Term(mes, mfs) == [matchExpressions |-> mes, matchFields |-> mfs]

Toleration(k, op, eff) == [key |-> k, operator |-> op, value |-> "", effect |-> eff]

VirtualLabels == Some([descheduler |-> "", virtual |-> "true"])

BasePod ==
    [namespace |-> "default", labels |-> VirtualLabels, ownerReferences |-> <<>>,
     annotations |-> [unschedulable |-> "", selector |-> Nil], nodeName |-> "",
     nodeSelector |-> {}, affinity |-> Nil, tolerations |-> Nil, volumes |-> <<>>]

\* namespace and labels of pods that shouldSkip passes and of pods it stops
EligibleMeta == {<<"default", VirtualLabels>>, <<"default", Nil>>}

SkippedMeta ==
    {<<"kube-system", VirtualLabels>>,
     <<"kube-system", Nil>>,
     <<"default", Some([descheduler |-> "true", virtual |-> "true"])>>,
     <<"default", Some([descheduler |-> "", virtual |-> ""])>>,
     <<"default", Some([descheduler |-> "false", virtual |-> "false"])>>}

OwnerRefs == {<<>>, <<"u1">>, <<"u2", "u1">>}

WithMeta(pod, meta, owners) ==
    [pod EXCEPT !.namespace = meta[1], !.labels = meta[2], !.ownerReferences = owners]

\* scheduling constraints of the pods sent to the webhook
ConstraintPods ==
    {BasePod,
     [BasePod EXCEPT !.nodeSelector = {<<"zone", "a">>, <<"gpu", "true">>},
                     !.tolerations = Some(<<Toleration("dedicated", "Exists", "NoSchedule")>>)],
     [BasePod EXCEPT !.affinity = Some(requiredAffinity(
                         <<Term(<<Requirement("gpu", "a")>>, <<>>)>>))],
     [BasePod EXCEPT !.affinity = Some(requiredAffinity(
                         <<Term(<<Requirement("zone", "a")>>,
                                <<Requirement("gpu", "a"), Requirement("zone", "b")>>)>>))],
     [BasePod EXCEPT !.affinity = Some([nodeAffinity |-> Nil]),
                     !.volumes = <<[persistentVolumeClaim |-> Nil],
                                   [persistentVolumeClaim |-> Some("data-unbound")],
                                   [persistentVolumeClaim |-> Some("data-bound")]>>],
     [BasePod EXCEPT !.tolerations = Some(<<>>),
                     !.volumes = <<[persistentVolumeClaim |-> Some("data-missing")]>>]}

SelectorPod == [BasePod EXCEPT !.nodeSelector = {<<"zone", "a">>}]

UpdatePods ==
    {[WithMeta(BasePod, <<"default", VirtualLabels>>, owners)
         EXCEPT !.annotations.unschedulable = node] :
        owners \in OwnerRefs, node \in Nodes \cup {""}}
    \cup
    {[WithMeta(BasePod, meta, <<"u1">>) EXCEPT !.annotations.unschedulable = "node-1"] :
        meta \in SkippedMeta \cup {<<"default", Nil>>}}

CreatePods ==
    {WithMeta(pod, <<"default", VirtualLabels>>, owners) :
        pod \in ConstraintPods, owners \in {<<>>, <<"u1">>}}
    \cup
    {[WithMeta(pod, <<"default", VirtualLabels>>, owners) EXCEPT !.nodeName = name] :
        pod \in {BasePod, SelectorPod}, owners \in {<<"u1">>, <<"u2", "u1">>},
        name \in {"", "node-3"}}
    \cup
    {WithMeta(SelectorPod, meta, <<"u1">>) : meta \in SkippedMeta \cup {<<"default", Nil>>}}

OtherPods ==
    {WithMeta(pod, <<"default", VirtualLabels>>, <<"u1">>) : pod \in ConstraintPods}
    \cup
    {WithMeta(SelectorPod, meta, <<"u1">>) : meta \in SkippedMeta}

\* the requests for which the diff collaborator may fail
DiffOutcomes(pod) == IF pod.nodeSelector # {} THEN BOOLEAN ELSE {FALSE}

IgnoreKeySets == {{}, {"gpu"}, {"gpu", NodeNameKey}}

AdmissionRequest(k, op, obj) == [kind |-> k, operation |-> op, object |-> obj]

----------------------------------------------------------------------------
(* The webhook server: one action per kind of request.  A request reads or    *)
(* writes the shared registry at most once, under the registry's lock, so the *)
(* handling of a request is one step and concurrent requests are interleaved. *)

Idle == [terminal |-> "None", response |-> Nil, steps |-> {}, diffFails |-> FALSE]

CarriesUnschedulable(req) ==
    /\ req.kind = "Pod"
    /\ req.operation = "UPDATE"
    /\ ~IsNil(req.object)
    /\ Len(req.object[1].ownerReferences) > 0
    /\ req.object[1].annotations.unschedulable # ""

Skipped(pod) ==
    \/ pod.namespace = "kube-system"
    \/ ~IsNil(pod.labels) /\ pod.labels[1].descheduler = "true"
    \/ ~IsNil(pod.labels) /\ pod.labels[1].virtual # "true"

OwnerNode(req) ==
    <<req.object[1].ownerReferences[1], req.object[1].annotations.unschedulable>>

Record(req, diffFails, done) ==
    /\ request' = Some(req)
    /\ outcome' = [terminal |-> done.terminal, response |-> done.response,
                   steps |-> done.steps, diffFails |-> diffFails]
    /\ freezeCache' = done.cache
    /\ updatesHandled' = IF CarriesUnschedulable(req) /\ ~Skipped(req.object[1])
                         THEN updatesHandled \cup {OwnerNode(req)}
                         ELSE updatesHandled
    /\ UNCHANGED <<ignoreSelectorKeys, fn, input, output>>

Serve(req, diffFails) ==
    Record(req, diffFails, mutate(req, diffFails, freezeCache, ignoreSelectorKeys))

ServeForeignKind ==
    /\ fn = "mutate"
    /\ \E kind \in {"Node", "Deployment"} :
           Serve(AdmissionRequest(kind, "CREATE", Nil), FALSE)

ServeUnparseable ==
    /\ fn = "mutate"
    /\ \E op \in {"CREATE", "UPDATE"} : Serve(AdmissionRequest("Pod", op, Nil), FALSE)

ServeUpdate ==
    /\ fn = "mutate"
    /\ \E pod \in UpdatePods : Serve(AdmissionRequest("Pod", "UPDATE", Some(pod)), FALSE)

ServeCreate ==
    /\ fn = "mutate"
    /\ \E pod \in CreatePods : \E diffFails \in DiffOutcomes(pod) :
           Serve(AdmissionRequest("Pod", "CREATE", Some(pod)), diffFails)

ServeOther ==
    /\ fn = "mutate"
    /\ \E pod \in OtherPods :
           \E op \in IF pod.nodeSelector # {} THEN {"DELETE", "CONNECT"} ELSE {"DELETE"} :
               Serve(AdmissionRequest("Pod", op, Some(pod)), FALSE)

Init ==
    /\ ignoreSelectorKeys \in IgnoreKeySets
    /\ freezeCache = {}
    /\ request = Nil
    /\ outcome = Idle
    /\ updatesHandled = {}
    /\ fn = "mutate"
    /\ input = Nil
    /\ output = Nil

Next ==
    \/ ServeForeignKind
    \/ ServeUnparseable
    \/ ServeUpdate
    \/ ServeCreate
    \/ ServeOther

Spec == Init /\ [][Next]_vars

----------------------------------------------------------------------------
(* Properties of the decision engine *)

Handled == ~IsNil(request)

IsPodRequest == Handled /\ request[1].kind = "Pod" /\ ~IsNil(request[1].object)

Operation == request[1].operation

ThePod == request[1].object[1]

Answered == ~IsNil(outcome.response)

Response == outcome.response[1]

FirstOwner(pod) == IF Len(pod.ownerReferences) > 0 THEN pod.ownerReferences[1] ELSE ""

LacksMarker(pod) == IsNil(pod.labels) \/ pod.labels[1].virtual # "true"

AllowedNoPatch ==
    /\ Answered
    /\ Response.allowed
    /\ IsNil(Response.patch)
    /\ outcome.steps = {}

\* the required terms of an affinity (Nil or Some): <<>> when it has none
RequiredTerms(affinity) ==
    IF IsNil(affinity) THEN <<>>
    ELSE IF IsNil(affinity[1].nodeAffinity) THEN <<>>
    ELSE IF IsNil(affinity[1].nodeAffinity[1].required) THEN <<>>
    ELSE affinity[1].nodeAffinity[1].required[1].terms

\* every required term carries a NotIn requirement on the node name listing node
Excludes(affinity, node) ==
    LET terms == RequiredTerms(affinity)
    IN  /\ Len(terms) > 0
        /\ \A i \in 1..Len(terms) :
              \E j \in 1..Len(terms[i].matchExpressions) :
                  LET me == terms[i].matchExpressions[j]
                  IN  me.key = NodeNameKey /\ me.operator = "NotIn" /\ node \in me.values

BackupAffinity(pod) ==
    IF IsNil(pod.annotations.selector) THEN Nil ELSE pod.annotations.selector[1].affinity

\* a CREATE for an owned pod that has no node name yet
IsOwnedCreate ==
    /\ IsPodRequest
    /\ Operation = "CREATE"
    /\ FirstOwner(ThePod) # ""
    /\ ThePod.nodeName = ""

\* C1 as stated: once a Pod UPDATE for a pod owned by O carrying
\* unschedulable-node=N has been handled, every later CREATE for a pod of owner
\* O without a node name yields a mutated pod whose live required node affinity
\* excludes N by a NotIn requirement on the node name.  (Stated for pods that
\* are not skipped and for CREATEs that are answered with a patch.)
C1_LiveAffinityExcludesFrozen ==
    (IsOwnedCreate /\ ~Skipped(ThePod) /\ Answered /\ ~IsNil(Response.patch)) =>
        \A node \in Nodes :
            <<FirstOwner(ThePod), node>> \in updatesHandled =>
                Excludes(Response.patch[1].affinity, node)

\* C1 amended: once an UPDATE of a pod that is not skipped, owned by O and
\* carrying unschedulable-node=N, has been handled, every later CREATE of a pod
\* that is not skipped, of owner O and without a node name, that is answered
\* with a patch carries the NotIn requirement on N: in the live required node
\* affinity when the node-name key is an ignore key, and otherwise in the
\* affinity of the backup annotation, the live affinity not excluding N.
C1_FrozenNodeCarried ==
    (IsOwnedCreate /\ ~Skipped(ThePod) /\ Answered /\ ~IsNil(Response.patch)) =>
        \A node \in Nodes :
            <<FirstOwner(ThePod), node>> \in updatesHandled =>
                IF NodeNameKey \in ignoreSelectorKeys
                THEN Excludes(Response.patch[1].affinity, node)
                ELSE /\ Excludes(BackupAffinity(Response.patch[1]), node)
                     /\ ~Excludes(Response.patch[1].affinity, node)

C1_Witness ==
    /\ IsOwnedCreate
    /\ ~Skipped(ThePod)
    /\ <<FirstOwner(ThePod), "node-2">> \in updatesHandled
    /\ NodeNameKey \notin ignoreSelectorKeys
    /\ ~IsNil(ThePod.affinity)
    /\ Answered
    /\ ~IsNil(Response.patch)
    /\ Excludes(BackupAffinity(Response.patch[1]), "node-2")

\* C2 as stated: a Pod request of any operation whose pod is in kube-system, or
\* carries the descheduler label "true", or lacks the virtual-pod marker (a pod
\* without a label map included) is allowed with no patch and no other step runs.
C2_SkipAlsoWithoutLabels ==
    (/\ IsPodRequest
     /\ \/ ThePod.namespace = "kube-system"
        \/ ~IsNil(ThePod.labels) /\ ThePod.labels[1].descheduler = "true"
        \/ LacksMarker(ThePod))
    => AllowedNoPatch

\* C2 amended: a Pod request of any operation whose pod is in kube-system, or
\* carries the descheduler label "true", or has a label map that lacks the
\* virtual-pod marker is allowed with no patch and no other step runs; a pod
\* without a label map outside kube-system is not skipped.
C2_EligibilitySkip ==
    /\ (/\ IsPodRequest
        /\ \/ ThePod.namespace = "kube-system"
           \/ ~IsNil(ThePod.labels) /\ ThePod.labels[1].descheduler = "true"
           \/ ~IsNil(ThePod.labels) /\ LacksMarker(ThePod))
       => (AllowedNoPatch /\ outcome.terminal = "SkippedAllow")
    /\ (IsPodRequest /\ IsNil(ThePod.labels) /\ ThePod.namespace # "kube-system")
       => outcome.terminal # "SkippedAllow"

C2_Witness ==
    /\ IsPodRequest
    /\ Operation = "CREATE"
    /\ ThePod.namespace = "default"
    /\ ~IsNil(ThePod.labels)
    /\ ThePod.labels[1].descheduler = "true"
    /\ ThePod.labels[1].virtual = "true"
    /\ ThePod.nodeSelector # {}
    /\ freezeCache # {}
    /\ outcome.terminal = "SkippedAllow"

\* C3 as stated: the response has allowed=false exactly when the kind is not
\* "Pod" (and then no patch); every Pod request is answered allowed=true, also
\* one whose raw object fails to parse (error message, no patch) and a CREATE
\* whose diff fails (no patch, embedded error status).
C3_DenialOnlyForForeignKind ==
    (Handled /\ Answered) =>
        /\ ~Response.allowed <=> request[1].kind # "Pod"
        /\ request[1].kind # "Pod" => IsNil(Response.patch)
        /\ outcome.terminal = "ParseError" =>
               Response.message # "" /\ IsNil(Response.patch)
        /\ (outcome.terminal = "AllowWithPatch" /\ outcome.diffFails) =>
               IsNil(Response.patch) /\ Response.code = 403 /\ Response.message # ""

\* C3 amended: the response has allowed=false exactly when the kind is not
\* "Pod" or the raw object fails to parse (in both cases no patch, and for the
\* parse failure the error message); every answered Pod request whose object
\* parses has allowed=true, also a CREATE whose diff fails (no patch, embedded
\* error status).
C3_DenialForForeignKindOrParseError ==
    (Handled /\ Answered) =>
        /\ ~Response.allowed <=>
               (request[1].kind # "Pod" \/ IsNil(request[1].object))
        /\ ~Response.allowed => IsNil(Response.patch)
        /\ outcome.terminal = "ParseError" <=>
               (request[1].kind = "Pod" /\ IsNil(request[1].object))
        /\ outcome.terminal = "ParseError" => Response.message # ""
        /\ (outcome.terminal = "AllowWithPatch" /\ outcome.diffFails) =>
               IsNil(Response.patch) /\ Response.code = 403 /\ Response.message # ""

C3_Witness ==
    /\ Handled
    /\ request[1].kind = "Pod"
    /\ IsNil(request[1].object)
    /\ Answered
    /\ ~Response.allowed
    /\ Response.message # ""

\* C4: every admission request reaches exactly one of the terminal response
\* states Denied, ParseError, Skipped-Allow, Updated-Allow,
\* Created-Allow-WithPatch, and handling never aborts without a response (the
\* affinity rewrite never slices out of bounds).
C4_EveryRequestAnswered ==
    Handled =>
        /\ Answered
        /\ outcome.terminal \in
               {"Denied", "ParseError", "SkippedAllow", "UpdatedAllow", "AllowWithPatch"}

\* the response carries a patch that edits the pod
HasEdits == ~IsNil(Response.patch) /\ Response.patch[1] # ThePod

\* C5: of the Pod requests whose pod is not skipped, an UPDATE is allowed with
\* no patch, and so is a request that is neither CREATE nor UPDATE (nothing is
\* resolved, rewritten or diffed for it); only CREATE can produce a patch.
C5_OnlyCreatePatches ==
    (IsPodRequest /\ Answered /\ Operation # "CREATE") =>
        (Response.allowed /\ ~HasEdits)

\* the request handled by this step is a Pod UPDATE, not skipped, that records
\* node for owner
RecordsNext(owner, node) ==
    /\ request'[1].kind = "Pod"
    /\ request'[1].operation = "UPDATE"
    /\ ~IsNil(request'[1].object)
    /\ ~Skipped(request'[1].object[1])
    /\ owner # ""
    /\ node # ""
    /\ FirstOwner(request'[1].object[1]) = owner
    /\ request'[1].object[1].annotations.unschedulable = node

\* C10: over any sequence of requests no owner's frozen-node set loses a node;
\* a node N joins owner O's set only by a Pod UPDATE, not skipped, whose first
\* owner reference is O (non-empty) and whose unschedulable-node annotation is N
\* (non-empty), and such an UPDATE adds exactly that pair; every other request
\* leaves the registry unchanged, as does recording a pair again.
C10_RegistryGrowthAndFrame ==
    [][/\ freezeCache \subseteq freezeCache'
       /\ \A pair \in freezeCache' \ freezeCache : RecordsNext(pair[1], pair[2])
       /\ \A owner \in Owners, node \in Nodes :
              RecordsNext(owner, node) =>
                  freezeCache' = freezeCache \cup {<<owner, node>>}]_vars

C10_Witness ==
    /\ {<<"u1", "node-1">>, <<"u2", "node-2">>} \subseteq freezeCache
    /\ <<"u1", "node-2">> \notin freezeCache
    /\ IsPodRequest
    /\ Operation = "CREATE"
    /\ FirstOwner(ThePod) = "u1"
    /\ outcome.terminal = "AllowWithPatch"

----------------------------------------------------------------------------
(* The rewriter's functions on their own: the input is drawn at the start    *)
(* and the function is applied to it                                         *)

serverVars == <<ignoreSelectorKeys, freezeCache, request, outcome, updatesHandled>>

IdleServer ==
    /\ ignoreSelectorKeys = {}
    /\ freezeCache = {}
    /\ request = Nil
    /\ outcome = Idle
    /\ updatesHandled = {}

TolerationValues ==
    {Toleration(k, op, eff) :
        k \in {TaintNodeNotReady, TaintNodeUnreachable, "dedicated"},
        op \in {"Exists", "Equal"}, eff \in {"NoExecute", "NoSchedule"}}

TolerationInputs ==
    {Nil} \cup {Some(list) : list \in SeqsUpTo(TolerationValues, MaxTolerations)}

InitTolerations ==
    /\ IdleServer
    /\ fn = "getPodTolerations"
    /\ input \in TolerationInputs
    /\ output = Nil

ApplyTolerations ==
    /\ fn = "getPodTolerations"
    /\ IsNil(output)
    /\ output' = Some(getPodTolerations(input))
    /\ UNCHANGED <<serverVars, fn, input>>

SpecTolerations == InitTolerations /\ [][ApplyTolerations]_vars

\* node selectors of at most MaxSelector entries
Selectors ==
    UNION {[keys -> {"a", "b"}] :
              keys \in {k \in SUBSET LabelKeys : Cardinality(k) <= MaxSelector}}

SelectorMap(f) == {<<k, f[k]>> : k \in DOMAIN f}

InjectAffinities ==
    {Nil,
     Some([nodeAffinity |-> Nil]),
     Some([nodeAffinity |-> Some([required |-> Nil])]),
     Some(requiredAffinity(<<Term(<<Requirement("zone", "a"), Requirement("gpu", "a")>>,
                                  <<>>)>>)),
     Some(requiredAffinity(<<Term(<<>>, <<Requirement("zone", "a"),
                                          Requirement("rack", "a")>>)>>))}

InjectTolerations ==
    {Nil,
     Some(<<>>),
     Some(<<Toleration("dedicated", "Exists", "NoSchedule")>>),
     Some(<<Toleration(TaintNodeNotReady, "Equal", "NoSchedule")>>),
     Some(<<desiredMap[TaintNodeNotReady], desiredMap[TaintNodeUnreachable]>>)}

InjectInputs ==
    {[pod |-> [BasePod EXCEPT !.nodeSelector = SelectorMap(sel), !.affinity = aff,
                              !.tolerations = tol],
      ignoreKeys |-> keys] :
        sel \in Selectors, aff \in InjectAffinities, tol \in InjectTolerations,
        keys \in SUBSET {"zone", "gpu"}}

InitInject ==
    /\ IdleServer
    /\ fn = "inject"
    /\ input \in InjectInputs
    /\ output = <<>>

InjectOnce ==
    /\ fn = "inject"
    /\ Len(output) = 0
    /\ output' = <<inject(input.pod, input.ignoreKeys)>>
    /\ UNCHANGED <<serverVars, fn, input>>

\* the rewriter runs again on the pod it has rewritten
InjectAgain ==
    /\ fn = "inject"
    /\ Len(output) = 1
    /\ ~output[1].panic
    /\ output' = Append(output, inject(output[1].pod, input.ignoreKeys))
    /\ UNCHANGED <<serverVars, fn, input>>

NextInject == InjectOnce \/ InjectAgain

SpecInject == InitInject /\ [][NextInject]_vars

RequirementValues == {Requirement("zone", "a"), Requirement("zone", "b"),
                      Requirement("gpu", "a")}

NoRepeat(list) == \A i, j \in 1..Len(list) : list[i] = list[j] => i = j

TermValues ==
    {Term(mes, mfs) :
        mes \in {l \in SeqsUpTo(RequirementValues, MaxExpressions) : NoRepeat(l)},
        mfs \in {l \in SeqsUpTo(RequirementValues, MaxFields) : NoRepeat(l)}}

InitAffinity ==
    /\ IdleServer
    /\ fn = "injectAffinity"
    /\ input \in {[terms |-> terms, ignoreLabels |-> keys] :
                     terms \in SeqsUpTo(TermValues, MaxTerms),
                     keys \in SUBSET {"zone", "gpu"}}
    /\ output = Nil

ApplyAffinity ==
    /\ fn = "injectAffinity"
    /\ IsNil(output)
    /\ output' = Some(injectAffinity(requiredAffinity(input.terms), input.ignoreLabels))
    /\ UNCHANGED <<serverVars, fn, input>>

SpecAffinity == InitAffinity /\ [][ApplyAffinity]_vars

----------------------------------------------------------------------------
(* Properties of the rewriter *)

WellKnown == {TaintNodeNotReady, TaintNodeUnreachable}

TolerationsIn == IF IsNil(input) THEN <<>> ELSE input[1]

CountKey(list, k) == Cardinality({i \in 1..Len(list) : list[i].key = k})

OtherKeys(list) == SelectSeq(list, LAMBDA t : t.key \notin WellKnown)

\* the defaults appended at the end for the keys the input lacks
AppendedDefaults ==
    (IF CountKey(TolerationsIn, TaintNodeNotReady) = 0
     THEN <<desiredMap[TaintNodeNotReady]>> ELSE <<>>)
    \o (IF CountKey(TolerationsIn, TaintNodeUnreachable) = 0
        THEN <<desiredMap[TaintNodeUnreachable]>> ELSE <<>>)

CanonicalAndOrdered(out) ==
    /\ \A i \in 1..Len(out) :
           out[i].key \in WellKnown =>
               out[i].operator = "Exists" /\ out[i].effect = "NoExecute"
    /\ OtherKeys(out) = OtherKeys(TolerationsIn)
    /\ Len(out) = Len(TolerationsIn) + Len(AppendedDefaults)
    /\ \A i \in 1..Len(TolerationsIn) : out[i].key = TolerationsIn[i].key
    /\ GoSlice(out, Len(TolerationsIn), Len(out)) = AppendedDefaults

\* C7 as stated: the normalized list holds exactly one entry with the
\* not-ready key and exactly one with the unreachable key, both Exists and
\* NoExecute; the other tolerations pass unchanged in their order and the
\* defaults for keys not seen come last, not-ready before unreachable.
C7_ExactlyOnePerKey ==
    (fn = "getPodTolerations" /\ ~IsNil(output)) =>
        /\ \A k \in WellKnown : CountKey(output[1], k) = 1
        /\ CanonicalAndOrdered(output[1])

\* C7 amended: the normalized list holds, for the not-ready and for the
\* unreachable key, as many entries as the input has with that key and one
\* when the input has none (so at least one, and exactly one when the input
\* has at most one), every one of them Exists and NoExecute; the other
\* tolerations pass unchanged in their order and the defaults for keys not
\* seen come last, not-ready before unreachable.
C7_AtLeastOnePerKey ==
    (fn = "getPodTolerations" /\ ~IsNil(output)) =>
        /\ \A k \in WellKnown :
               CountKey(output[1], k) =
                   IF CountKey(TolerationsIn, k) = 0 THEN 1
                   ELSE CountKey(TolerationsIn, k)
        /\ CanonicalAndOrdered(output[1])

C7_Witness ==
    /\ fn = "getPodTolerations"
    /\ ~IsNil(output)
    /\ CountKey(TolerationsIn, TaintNodeNotReady) = 2
    /\ CountKey(TolerationsIn, TaintNodeUnreachable) = 0
    /\ CountKey(TolerationsIn, "dedicated") = 1
    /\ \E i \in 1..Len(TolerationsIn) :
           TolerationsIn[i].key = TaintNodeNotReady /\ TolerationsIn[i].effect = "NoSchedule"
    /\ CountKey(output[1], TaintNodeNotReady) = 2
    /\ output[1][Len(output[1])] = desiredMap[TaintNodeUnreachable]

FirstPassDone == fn = "inject" /\ Len(output) >= 1 /\ ~output[1].panic

BackupSelector(pod) == pod.annotations.selector[1].nodeSelector

\* C6: for a non-empty node selector S and ignore keys I, after the rewriter
\* has run the live selector holds exactly the entries of S whose key is in I,
\* the selector of the backup annotation exactly those whose key is not in I,
\* values unchanged, and the two partition S.
C6_NodeSelectorPartition ==
    (FirstPassDone /\ input.pod.nodeSelector # {}) =>
        LET S == input.pod.nodeSelector
            live == output[1].pod.nodeSelector
            backup == BackupSelector(output[1].pod)
        IN  /\ ~IsNil(output[1].pod.annotations.selector)
            /\ live = {p \in S : p[1] \in input.ignoreKeys}
            /\ backup = {p \in S : p[1] \notin input.ignoreKeys}
            /\ live \cup backup = S
            /\ live \cap backup = {}

C6_Witness ==
    /\ FirstPassDone
    /\ input.ignoreKeys = {"gpu"}
    /\ input.pod.nodeSelector = {<<"zone", "a">>, <<"gpu", "b">>}
    /\ output[1].pod.nodeSelector = {<<"gpu", "b">>}
    /\ BackupSelector(output[1].pod) = {<<"zone", "a">>}

\* C8: applying the rewriter to a pod it has already rewritten changes nothing:
\* backup annotation, live node selector, live affinity and live tolerations
\* after the second pass equal those after the first.
C8_InjectIdempotent ==
    (fn = "inject" /\ Len(output) = 2 /\ ~output[2].panic) =>
        /\ output[2].pod.annotations.selector = output[1].pod.annotations.selector
        /\ output[2].pod.nodeSelector = output[1].pod.nodeSelector
        /\ output[2].pod.affinity = output[1].pod.affinity
        /\ output[2].pod.tolerations = output[1].pod.tolerations

KeepIgnored(list) == SelectSeq(list, LAMBDA r : r.key \in input.ignoreLabels)

KeepOthers(list) == SelectSeq(list, LAMBDA r : r.key \notin input.ignoreLabels)

ExpectedLive ==
    filterTerms([i \in 1..Len(input.terms) |->
        Term(KeepIgnored(input.terms[i].matchExpressions),
             KeepIgnored(input.terms[i].matchFields))])

ExpectedBackup ==
    filterTerms([i \in 1..Len(input.terms) |->
        Term(KeepOthers(input.terms[i].matchExpressions),
             KeepOthers(input.terms[i].matchFields))])

\* C9: after the affinity rewrite each live term keeps exactly its
\* match-expressions and match-fields whose key is an ignore key, in their
\* order, the backup affinity holds term by term exactly those whose key is
\* not, live terms left empty are dropped, and the live required affinity is
\* nil when no term remains.
C9_AffinityPartition ==
    (fn = "injectAffinity" /\ ~IsNil(output) /\ ~output[1].panic) =>
        /\ RequiredTerms(Some(output[1].live)) = ExpectedLive
        /\ Len(ExpectedLive) = 0 => IsNil(output[1].live.nodeAffinity[1].required)
        /\ RequiredTerms(output[1].backup) = ExpectedBackup

====
